---- MODULE Spec2Model ----
(***************************************************************************)
(* A model of the four command-line tools of zstd-learning: the data       *)
(* generator (cmd/generate-data), the dictionary trainer (cmd/train-dict), *)
(* the compressor (cmd/compress) and the decompressor (cmd/decompress).    *)
(*                                                                         *)
(* A path is a sequence of tokens; each token stands for the characters it *)
(* spells ("a", ".zst", ".out", "/").  The token set is prefix-free, so    *)
(* two paths are equal as strings iff they are equal as token sequences,   *)
(* a string ends in ".zst" iff its last token is ".zst", and the byte-wise *)
(* order of sort.Strings is the lexicographic order of the tokens' ranks.  *)
(* A directory tree is a function from relative paths to entries; the root *)
(* of a tree is the empty path.  File contents are sequences of bytes.     *)
(***************************************************************************)
EXTENDS Integers, Sequences, FiniteSets, TLC

\* ------------------------------------------------------------------ bounds
\* Most regular files or symbolic links in an initial input tree.
MaxFiles == 2
\* Most bytes over all the files the trainer samples.
MaxTrainBytes == 4
\* Largest -max-samples and -max-sample-bytes tried.
MaxFlag == 3
\* Largest -n tried.
MaxCount == 3

\* ------------------------------------------------------------------- bytes
Space == 32
Newline == 10
Return == 13
Tab == 9
\* Whitespace bytes of unicode.IsSpace (bytes.TrimSpace) that the switch of
\* bytesTrimSpace does not name: vertical tab and form feed.
OtherWhitespace == {11, 12}
Whitespace == {Space, Newline, Return, Tab} \cup OtherWhitespace
\* Bytes bytesTrimSpace removes at the ends of a chunk.
TrimmedBytes == {Space, Newline, Return, Tab}
\* Data of the files of the models: a letter, and a letter before a space.
FileData == <<65>>
LinkData == <<65, 65>>
StaleData == <<65, 32>>

\* ------------------------------------------------------------------- paths
Slash == "/"
ZstSuffix == <<".zst">>
OutSuffix == <<".out">>

\* Byte order of the tokens' first differing characters:
\* '.' (46) < '/' (47) < 'a' (97), and ".out" < ".zst".
TokRank(t) ==
  CASE t = ".out" -> 1
    [] t = ".zst" -> 2
    [] t = "/" -> 3
    [] OTHER -> 4

\* Order of the file names of one directory and then of their children, as
\* ReadDir sorts them: a path component ends where "/" stands.
WalkRank(t) == IF t = "/" THEN 0 ELSE TokRank(t)

RECURSIVE LexLess(_, _, _)
\* p before q, token by token: in the order of WalkDir (walk) or of the bytes.
LexLess(walk, p, q) ==
  IF p = <<>> THEN q # <<>>
  ELSE IF q = <<>> THEN FALSE
  ELSE IF Head(p) = Head(q) THEN LexLess(walk, Tail(p), Tail(q))
  ELSE IF walk THEN WalkRank(Head(p)) < WalkRank(Head(q))
  ELSE TokRank(Head(p)) < TokRank(Head(q))

\* p < q in the order of sort.Strings.
PathLess(p, q) == LexLess(FALSE, p, q)

\* The directories above p, the root (the empty path) included.
Ancestors(p) == {SubSeq(p, 1, i - 1) : i \in {j \in 1..Len(p) : p[j] = Slash}} \cup
                (IF p = <<>> THEN {} ELSE {<<>>})

\* filepath.Dir: the path without its last component.
Dir(p) ==
  LET cuts == {j \in 1..Len(p) : p[j] = Slash}
  IN IF cuts = {} THEN <<>>
     ELSE SubSeq(p, 1, (CHOOSE j \in cuts : \A k \in cuts : k <= j) - 1)

\* filepath.Join(root, p) relative to root: Clean drops a trailing separator.
RECURSIVE Clean(_)
Clean(p) ==
  IF p # <<>> /\ p[Len(p)] = Slash THEN Clean(SubSeq(p, 1, Len(p) - 1)) ELSE p

\* strings.TrimSuffix(p, ".zst")
TrimSuffixZst(p) ==
  IF p # <<>> /\ p[Len(p)] = ZstSuffix[1] THEN SubSeq(p, 1, Len(p) - 1) ELSE p

\* ------------------------------------------------------------- file system
\* size is what Lstat reports (fs.DirEntry.Info): the length of a regular
\* file, the length of the target name of a symbolic link; data is what a
\* read through os.Open yields.
RegularFile(data) == [kind |-> "file", size |-> Len(data), data |-> data]
Directory == [kind |-> "dir", size |-> 1, data |-> <<>>]
Symlink(data) == [kind |-> "symlink", size |-> 1, data |-> data]

EmptyTree == (<<>> :> Directory)

\* The tree holding the entries leaf[p], p in DOMAIN leaf, and their directories.
TreeOf(leaf) ==
  LET dirs == UNION {Ancestors(p) \cup {<<>>} : p \in DOMAIN leaf} \cup {<<>>}
  IN [p \in dirs \cup DOMAIN leaf |-> IF p \in DOMAIN leaf THEN leaf[p] ELSE Directory]

\* os.MkdirAll(d): fails when d or a directory above it is not a directory.
MkdirAllOk(tree, d) ==
  \A a \in Ancestors(d) \cup {d} : a \in DOMAIN tree => tree[a].kind = "dir"
MkdirAll(tree, d) ==
  [p \in DOMAIN tree \cup Ancestors(d) \cup {d} |->
     IF p \in DOMAIN tree THEN tree[p] ELSE Directory]

\* os.Open(p) for reading: p names a file, or a link to one.
OpenOk(tree, p) == p \in DOMAIN tree /\ tree[p].kind # "dir"
\* os.Create(p): creates or truncates; fails on a directory.
CreateOk(tree, p) ==
  /\ p \in DOMAIN tree => tree[p].kind = "file"
  /\ \A a \in Ancestors(p) : a \in DOMAIN tree /\ tree[a].kind = "dir"
WriteFile(tree, p, data) ==
  [q \in DOMAIN tree \cup {p} |-> IF q = p THEN RegularFile(data) ELSE tree[q]]

\* The files (not the directories) of a tree, as a set of relative paths.
FilePaths(tree) == {p \in DOMAIN tree : tree[p].kind # "dir"}

\* --------------------------------------------------------------- sequences
RECURSIVE SeqOfSet(_, _)
\* The paths of S, first to last, in the order of WalkDir (walk) or of the bytes.
SeqOfSet(walk, S) ==
  IF S = {} THEN <<>>
  ELSE LET m == CHOOSE x \in S : \A y \in S \ {x} : LexLess(walk, x, y)
       IN <<m>> \o SeqOfSet(walk, S \ {m})

RECURSIVE Insert(_, _)
Insert(p, sorted) ==
  IF sorted = <<>> THEN <<p>>
  ELSE IF PathLess(p, Head(sorted)) THEN <<p>> \o sorted
  ELSE <<Head(sorted)>> \o Insert(p, Tail(sorted))

RECURSIVE SortStrings(_)
\* sort.Strings
SortStrings(s) == IF s = <<>> THEN <<>> ELSE Insert(Head(s), SortStrings(Tail(s)))

Range(s) == {s[i] : i \in 1..Len(s)}

\* --------------------------------------------------------------- listFiles
\* The paths filepath.WalkDir hands to the callback, in its order: the root,
\* then each directory's entries by name, a directory before its children.
WalkDir(tree) == SeqOfSet(TRUE, DOMAIN tree)

\* The callback without its check of the size.
ListCallbackNoSizeCheck(tree, acc, p) ==
  IF tree[p].kind = "dir" THEN acc ELSE Append(acc, p)
\* The callback of listFiles: directories and entries of size zero are left
\* out, every other entry is appended.
ListCallback(tree, acc, p) ==
  IF tree[p].kind = "dir" THEN acc
  ELSE IF tree[p].size = 0 THEN acc
  ELSE Append(acc, p)

RECURSIVE WalkFold(_, _, _)
WalkFold(tree, walk, acc) ==
  IF walk = <<>> THEN acc
  ELSE WalkFold(tree, Tail(walk), ListCallback(tree, acc, Head(walk)))

listFiles(tree) == SortStrings(WalkFold(tree, WalkDir(tree), <<>>))

\* ------------------------------------------------------------------- codec
\* The zstd library, as an encode/decode pair: a frame is a magic byte, the
\* identifier of the dictionary it needs (0: none), the length of the
\* payload, and the payload.  A dictionary is identified by its first byte.
FrameHeader(id, n) == <<40, id, n>>
Dictionary == <<7>>
DictID(dict) == IF dict = <<>> THEN 0 ELSE dict[1]
Encode(data, dict) == FrameHeader(DictID(dict), Len(data)) \o data
DecodeOk(frame, dict) ==
  /\ Len(frame) >= 3
  /\ frame[1] = FrameHeader(0, 0)[1]
  /\ frame[2] = 0 \/ (dict # <<>> /\ frame[2] = DictID(dict))
  /\ Len(frame) = 3 + frame[3]
Decode(frame, dict) == SubSeq(frame, 4, Len(frame))

\* ------------------------------------------------------------------- state
VARIABLES
  tool,       \* the running (or last run) command
  pc,         \* its position
  flags,      \* its parsed flags
  exitCode,   \* 0 or 1 once it has exited, -1 before
  stderr,     \* the message printed before os.Exit(1)
  history,    \* the runs that have ended, oldest first
  inTree,     \* the directory the compressor and the trainer read (-in)
  zTree,      \* the compressor's -out, the decompressor's -in
  outTree,    \* the decompressor's -out
  dictFile,   \* the file -dict names: [exists, data]
  paths,      \* listFiles' result
  idx,        \* the loop index over paths (1-based)
  dictBytes,  \* the dictionary read by main
  codecDict,  \* the dictionary the encoder/decoder was built with
  encoder,    \* "none", "ready", "reset", "written", "closed"
  stats,      \* runStats
  inFile,     \* the handle of the input file: "nil", "open", "closed"
  outFile,    \* the handle of the output file
  opened,     \* the input paths opened so far in this run, in order
  written,    \* io.Copy's byte count for the current file
  err,        \* whether io.Copy returned an error
  push,       \* pushMetrics: "none" (not called), "ok", "failed"
  samples,    \* collectSamples' samples
  sstats,     \* sampleStats
  chunks,     \* readSamplesFromFile's samples of the current file
  total,      \* readSamplesFromFile's byte count
  offset,     \* the bytes of the current file the reader has consumed
  reads,      \* every io.ReadFull of this run: [file, chunk], oldest first
  trained,    \* dict.BuildZstdDict: "none" (not called), "ok", "failed"
  options,    \* the dict.Options BuildZstdDict was called with
  genFile,    \* the generator's output file: [exists, data], data a sequence of items
  wbuf,       \* the items in the bufio.Writer's buffer
  gi,         \* writeJSONArray's loop index i
  flushed,    \* the deferred writer.Flush(): "none" (not run), "ok", "failed"
  gateway     \* the pushes the Pushgateway received, oldest first

vars == <<tool, pc, flags, exitCode, stderr, history, inTree, zTree, outTree,
          dictFile, paths, idx, dictBytes, codecDict, encoder, stats, inFile,
          outFile, opened, written, err, push, samples, sstats, chunks, total,
          offset, reads, trained, options, genFile, wbuf, gi, flushed, gateway>>

disk == <<inTree, zTree, outTree, dictFile, genFile>>
codecLocals == <<dictBytes, codecDict, encoder, stats, inFile, outFile, written, err>>
trainLocals == <<samples, sstats, chunks, total, offset, reads, trained, options>>
genLocals == <<wbuf, gi, flushed>>
locals == <<paths, idx, opened, push, codecLocals, trainLocals, genLocals>>

\* The dict.Options before main has set them.
NoOptions == [MaxDictSize |-> 0, HashBytes |-> 0, ZstdLevel |-> "unset"]
runStats == [FilesProcessed |-> 0, InputBytes |-> 0, OutputBytes |-> 0]
sampleStats == [FilesScanned |-> 0, Samples |-> 0, SampleBytes |-> 0]

NoFile == [exists |-> FALSE, data |-> <<>>]
File(data) == [exists |-> TRUE, data |-> data]

\* ----------------------------------------------------------- initial disks
\* The relative paths an initial input tree may hold files at.
InPaths == {<<"a">>, <<"a", ".out">>, <<"a", ".zst">>, <<"a", "/", "a">>}
\* What may stand at such a path: an empty file, a file with data, a
\* symbolic link to a file with data.
InLeaves == {RegularFile(<<>>), RegularFile(FileData), Symlink(LinkData)}

Trees(pathSet, leaves, n) ==
  {TreeOf(leaf) : leaf \in
     UNION {[S -> leaves] : S \in {T \in SUBSET pathSet :
                                     /\ Cardinality(T) <= n
                                     /\ \A p \in T : Ancestors(p) \cap T = {}}}}

InTrees == Trees(InPaths, InLeaves, MaxFiles)

\* What the decompressor's input directory may hold before the compressor
\* has run: nothing, or one older file, a frame or not, named with or
\* without the suffix.
StalePaths == {<<"a">>, <<".zst">>, <<"a", "/", ".zst">>}
StaleLeaves == {RegularFile(Encode(StaleData, <<>>)), RegularFile(FileData), RegularFile(<<>>)}
ZTrees == Trees(StalePaths, StaleLeaves, 1)

DictFiles == {NoFile, File(<<>>), File(Dictionary)}

InitProcess ==
  /\ pc = "idle"
  /\ flags = [useDict |-> FALSE, dict |-> ""]
  /\ exitCode = -1
  /\ stderr = ""
  /\ history = <<>>
  /\ paths = <<>>
  /\ idx = 1
  /\ dictBytes = <<>>
  /\ codecDict = <<>>
  /\ encoder = "none"
  /\ stats = runStats
  /\ inFile = "nil"
  /\ outFile = "nil"
  /\ opened = <<>>
  /\ written = 0
  /\ err = FALSE
  /\ push = "none"
  /\ samples = <<>>
  /\ sstats = sampleStats
  /\ chunks = <<>>
  /\ total = 0
  /\ offset = 0
  /\ reads = <<>>
  /\ trained = "none"
  /\ options = NoOptions
  /\ wbuf = <<>>
  /\ gi = 0
  /\ flushed = "none"
  /\ gateway = <<>>

\* The disk before the compressor and the decompressor run.
InitFiles ==
  /\ inTree \in InTrees
  /\ zTree \in ZTrees
  /\ outTree = EmptyTree
  /\ dictFile \in DictFiles
  /\ genFile = NoFile

\* ------------------------------------------------------------ process ends
\* os.Exit(code), after the message m went to standard error.
Exit(code, m) ==
  /\ pc' = "exit"
  /\ exitCode' = code
  /\ stderr' = m
  /\ history' = Append(history, [tool |-> tool, code |-> code, msg |-> m,
                                 flags |-> flags, dict |-> codecDict])

Continue(next) ==
  /\ pc' = next
  /\ UNCHANGED <<exitCode, stderr, history>>

\* A new process: every local starts at its zero value.
Start(t, f) ==
  /\ tool' = t
  /\ flags' = f
  /\ pc' = "validate"
  /\ exitCode' = -1
  /\ stderr' = ""
  /\ paths' = <<>>
  /\ idx' = 1
  /\ dictBytes' = <<>>
  /\ codecDict' = <<>>
  /\ encoder' = "none"
  /\ stats' = runStats
  /\ inFile' = "nil"
  /\ outFile' = "nil"
  /\ opened' = <<>>
  /\ written' = 0
  /\ err' = FALSE
  /\ push' = "none"
  /\ samples' = <<>>
  /\ sstats' = sampleStats
  /\ chunks' = <<>>
  /\ total' = 0
  /\ offset' = 0
  /\ reads' = <<>>
  /\ trained' = "none"
  /\ options' = NoOptions
  /\ wbuf' = <<>>
  /\ gi' = 0
  /\ flushed' = "none"
  /\ UNCHANGED <<history, disk, gateway>>

\* strings.TrimSpace of a flag's text: "" and " " stand for the empty and a
\* blank text, every other text has no space at its ends.
TrimSpace(text) == IF text = " " THEN "" ELSE text

\* The seconds time.Now() may show when a run asks for the time.
Times == {"20260101_000000", "20260101_000001"}
\* The decompressor's flags, -run-id at its default, and the time of the run.
DecompressFlags == [useDict : BOOLEAN, dict : {"", "dict"}, runID : {""},
                    now : {"20260101_000000"}]
\* The compressor's flags, -level at its default.
CompressFlags == [useDict : BOOLEAN, dict : {"", "dict"}, level : {0}]

\* ---------------------------------------------------------------- compress
LaunchCompress ==
  /\ pc = "idle" /\ tool = "none"
  /\ \E f \in CompressFlags : Start("compress", f)

\* main, the flag check
compress_validate ==
  /\ tool = "compress" /\ pc = "validate"
  /\ IF flags.useDict /\ TrimSpace(flags.dict) = ""
       THEN Exit(1, "-dict is required when -use-dict is set")
       ELSE Continue("mkdirOut")
  /\ UNCHANGED <<tool, flags, disk, locals, gateway>>

\* main, os.MkdirAll(*outDir)
compress_mkdirOut ==
  /\ tool = "compress" /\ pc = "mkdirOut"
  /\ \E ok \in BOOLEAN :
       IF ok THEN Continue("list") ELSE Exit(1, "failed to create output dir")
  /\ UNCHANGED <<tool, flags, disk, locals, gateway>>

\* main, listFiles(*inputDir) and the check for no files
compress_list ==
  /\ tool = "compress" /\ pc = "list"
  /\ \E ok \in BOOLEAN :
       IF ~ok
         THEN Exit(1, "failed to list input files") /\ UNCHANGED paths
       ELSE IF Len(listFiles(inTree)) = 0
         THEN Exit(1, "no files found") /\ paths' = listFiles(inTree)
       ELSE Continue("readDict") /\ paths' = listFiles(inTree)
  /\ UNCHANGED <<tool, flags, disk, idx, dictBytes, codecDict, encoder, stats,
                 inFile, outFile, opened, written, err, push, trainLocals, genLocals, gateway>>

\* main, os.ReadFile(*dictPath) when -use-dict is set
compress_readDict ==
  /\ tool = "compress" /\ pc = "readDict"
  /\ IF flags.useDict
       THEN IF dictFile.exists
              THEN Continue("newCodec") /\ dictBytes' = dictFile.data
              ELSE Exit(1, "failed to read dict") /\ UNCHANGED dictBytes
       ELSE Continue("newCodec") /\ UNCHANGED dictBytes
  /\ UNCHANGED <<tool, flags, disk, paths, idx, codecDict, encoder, stats,
                 inFile, outFile, opened, written, err, push, trainLocals, genLocals, gateway>>

\* What a failed copy or flush may leave in the output file: nothing, a cut
\* frame, or the frame of the bytes read before the error.
FailedOutputs(data, dict) ==
  {<<>>, SubSeq(Encode(data, dict), 1, Len(Encode(data, dict)) - 1)} \cup
  (IF data = <<>> THEN {} ELSE {Encode(SubSeq(data, 1, Len(data) - 1), dict)})

\* file.Close() on a handle: an open one is closed; one that is nil or was
\* closed before is not closed a second time without a trace.
CloseFile(handle) == IF handle = "open" THEN "closed" ELSE "closed again"

\* outPath := filepath.Join(outDir, rel) + ".zst", relative to outDir
compressOutPath(rel) == Clean(rel) \o ZstSuffix

\* compressFiles, up to the loop: the encoder and its options
compressFiles_new ==
  /\ tool = "compress" /\ pc = "newCodec"
  /\ \E ok \in BOOLEAN :
       IF ok
         THEN /\ Continue("loop")
              /\ codecDict' = IF Len(dictBytes) > 0 THEN dictBytes ELSE <<>>
              /\ encoder' = "ready"
         ELSE Exit(1, "compression failed") /\ UNCHANGED <<codecDict, encoder>>
  /\ UNCHANGED <<tool, flags, disk, paths, idx, dictBytes, stats, inFile, outFile,
                 opened, written, err, push, trainLocals, genLocals, gateway>>

\* compressFiles, the loop head: the next path, its output path and directory;
\* past the last path the function returns its statistics.
compressFiles_loop ==
  /\ tool = "compress" /\ pc = "loop"
  /\ IF idx > Len(paths)
       THEN Continue("push") /\ UNCHANGED zTree
       ELSE \E ok \in BOOLEAN :
              IF ok /\ MkdirAllOk(zTree, Dir(compressOutPath(paths[idx])))
                THEN /\ Continue("open")
                     /\ zTree' = MkdirAll(zTree, Dir(compressOutPath(paths[idx])))
                ELSE Exit(1, "compression failed") /\ UNCHANGED zTree
  /\ UNCHANGED <<tool, flags, inTree, outTree, dictFile, genFile, locals, gateway>>

\* inFile, err := os.Open(path)
compressFiles_open ==
  /\ tool = "compress" /\ pc = "open"
  /\ \E ok \in BOOLEAN :
       IF ok /\ OpenOk(inTree, paths[idx])
         THEN /\ Continue("create")
              /\ inFile' = "open"
              /\ opened' = Append(opened, paths[idx])
         ELSE Exit(1, "compression failed") /\ UNCHANGED <<inFile, opened>>
  /\ UNCHANGED <<tool, flags, disk, paths, idx, dictBytes, codecDict, encoder, stats,
                 outFile, written, err, push, trainLocals, genLocals, gateway>>

\* outFile, err := os.Create(outPath)
compressFiles_create ==
  /\ tool = "compress" /\ pc = "create"
  /\ \E ok \in BOOLEAN :
       IF ok /\ CreateOk(zTree, compressOutPath(paths[idx]))
         THEN /\ Continue("copy")
              /\ zTree' = WriteFile(zTree, compressOutPath(paths[idx]), <<>>)
              /\ outFile' = "open"
              /\ UNCHANGED inFile
         ELSE /\ Exit(1, "compression failed")
              /\ inFile' = CloseFile(inFile)
              /\ UNCHANGED <<zTree, outFile>>
  /\ UNCHANGED <<tool, flags, inTree, outTree, dictFile, genFile, paths, idx, dictBytes,
                 codecDict, encoder, stats, opened, written, err, push, trainLocals, genLocals, gateway>>

\* The copy that is not followed by encoder.Close().
compressFiles_copyNoClose ==
  /\ tool = "compress" /\ pc = "copy"
  /\ \E ok \in BOOLEAN :
       /\ err' = ~ok
       /\ written' = IF ok THEN Len(inTree[paths[idx]].data) ELSE 0
  /\ encoder' = "written"
  /\ Continue("closeOut")
  /\ UNCHANGED <<tool, flags, disk, paths, idx, dictBytes, codecDict, stats, inFile,
                 outFile, opened, push, trainLocals, genLocals, gateway>>

\* encoder.Reset(outFile); written, err := io.Copy(encoder, inFile)
compressFiles_copy ==
  /\ tool = "compress" /\ pc = "copy"
  /\ \E ok \in BOOLEAN :
       /\ err' = ~ok
       /\ written' = IF ok THEN Len(inTree[paths[idx]].data) ELSE 0
  /\ encoder' = "written"
  /\ Continue("encClose")
  /\ UNCHANGED <<tool, flags, disk, paths, idx, dictBytes, codecDict, stats, inFile,
                 outFile, opened, push, trainLocals, genLocals, gateway>>

\* encoder.Close(), and the return on an error of the copy or of the flush
compressFiles_encClose ==
  /\ tool = "compress" /\ pc = "encClose"
  /\ encoder' = "closed"
  /\ \E closeOk \in BOOLEAN :
       IF closeOk /\ ~err
         THEN /\ Continue("closeOut")
              /\ zTree' = WriteFile(zTree, compressOutPath(paths[idx]),
                                    Encode(inTree[paths[idx]].data, codecDict))
              /\ UNCHANGED <<inFile, outFile>>
         ELSE /\ Exit(1, "compression failed")
              /\ \E left \in FailedOutputs(inTree[paths[idx]].data, codecDict) :
                   zTree' = WriteFile(zTree, compressOutPath(paths[idx]), left)
              /\ inFile' = CloseFile(inFile)
              /\ outFile' = CloseFile(outFile)
  /\ UNCHANGED <<tool, flags, inTree, outTree, dictFile, genFile, paths, idx, dictBytes,
                 codecDict, stats, opened, written, err, push, trainLocals, genLocals, gateway>>

\* The outFile.Close() that leaves the input open on its error.
compressFiles_closeOutLeak ==
  /\ tool = "compress" /\ pc = "closeOut"
  /\ outFile' = CloseFile(outFile)
  /\ \E ok \in BOOLEAN :
       IF ok THEN Continue("closeIn") /\ UNCHANGED inFile
       ELSE Exit(1, "compression failed") /\ UNCHANGED inFile
  /\ UNCHANGED <<tool, flags, disk, paths, idx, dictBytes, codecDict, encoder, stats,
                 opened, written, err, push, trainLocals, genLocals, gateway>>

\* outFile.Close()
compressFiles_closeOut ==
  /\ tool = "compress" /\ pc = "closeOut"
  /\ outFile' = CloseFile(outFile)
  /\ \E ok \in BOOLEAN :
       IF ok THEN Continue("closeIn") /\ UNCHANGED inFile
       ELSE Exit(1, "compression failed") /\ inFile' = CloseFile(inFile)
  /\ UNCHANGED <<tool, flags, disk, paths, idx, dictBytes, codecDict, encoder, stats,
                 opened, written, err, push, trainLocals, genLocals, gateway>>

\* inFile.Close()
compressFiles_closeIn ==
  /\ tool = "compress" /\ pc = "closeIn"
  /\ inFile' = CloseFile(inFile)
  /\ \E ok \in BOOLEAN :
       IF ok THEN Continue("stat") ELSE Exit(1, "compression failed")
  /\ UNCHANGED <<tool, flags, disk, paths, idx, dictBytes, codecDict, encoder, stats,
                 outFile, opened, written, err, push, samples, sstats, chunks, total,
          offset, reads, trained, options, genFile, wbuf, gi, flushed, gateway>>

\* info, err := os.Stat(outPath), and the statistics of the file
compressFiles_stat ==
  /\ tool = "compress" /\ pc = "stat"
  /\ \E ok \in BOOLEAN :
       IF ok
         THEN /\ Continue("loop")
              /\ stats' = [FilesProcessed |-> stats.FilesProcessed + 1,
                           InputBytes |-> stats.InputBytes + written,
                           OutputBytes |-> stats.OutputBytes +
                                           zTree[compressOutPath(paths[idx])].size]
              /\ idx' = idx + 1
         ELSE Exit(1, "compression failed") /\ UNCHANGED <<stats, idx>>
  /\ UNCHANGED <<tool, flags, disk, paths, dictBytes, codecDict, encoder, inFile,
                 outFile, opened, written, err, push, samples, sstats, chunks, total,
          offset, reads, trained, options, genFile, wbuf, gi, flushed, gateway>>

\* pushMetrics: levelLabel is "default", or strconv.Itoa(level) for a level
\* that is not 0.
\* The decimal text of a level is written <<"level", level>>: Itoa maps
\* different numbers to different texts, none of them "default".
levelLabel(level) == IF level # 0 THEN <<"level", level>> ELSE <<"default">>

\* main, pushMetrics and the summary line
compress_push ==
  /\ tool = "compress" /\ pc = "push"
  /\ \E ok \in BOOLEAN :
       IF ok
         THEN /\ Exit(0, "")
              /\ push' = "ok"
              /\ gateway' = Append(gateway, [job |-> "compress",
                                             group |-> [source |-> "output",
                                                        use_dict |-> flags.useDict,
                                                        level |-> levelLabel(flags.level)],
                                             use_dict |-> flags.useDict,
                                             stats |-> stats])
         ELSE /\ Exit(1, "metrics push failed")
              /\ push' = "failed"
              /\ UNCHANGED gateway
  /\ UNCHANGED <<tool, flags, disk, paths, idx, dictBytes, codecDict, encoder, stats,
                 inFile, outFile, opened, written, err, trainLocals, genLocals>>

CompressSteps ==
  \/ compress_validate
  \/ compress_mkdirOut
  \/ compress_list
  \/ compress_readDict
  \/ compressFiles_new
  \/ compressFiles_loop
  \/ compressFiles_open
  \/ compressFiles_create
  \/ compressFiles_copy
  \/ compressFiles_encClose
  \/ compressFiles_closeOut
  \/ compressFiles_closeIn
  \/ compressFiles_stat
  \/ compress_push
CompressNext == LaunchCompress \/ CompressSteps

\* -------------------------------------------------------------- decompress
LaunchDecompress ==
  /\ (pc = "idle" /\ tool = "none") \/ (pc = "exit" /\ tool = "compress")
  /\ \E f \in DecompressFlags : Start("decompress", f)

\* main, the flag check
decompress_validate ==
  /\ tool = "decompress" /\ pc = "validate"
  /\ IF flags.useDict /\ TrimSpace(flags.dict) = ""
       THEN Exit(1, "-dict is required when -use-dict is set")
       ELSE Continue("mkdirOut")
  /\ UNCHANGED <<tool, flags, disk, locals, gateway>>

\* main, os.MkdirAll(*outDir)
decompress_mkdirOut ==
  /\ tool = "decompress" /\ pc = "mkdirOut"
  /\ \E ok \in BOOLEAN :
       IF ok THEN Continue("list") ELSE Exit(1, "failed to create output dir")
  /\ UNCHANGED <<tool, flags, disk, locals, gateway>>

\* main, listFiles(*inputDir) and the check for no files
decompress_list ==
  /\ tool = "decompress" /\ pc = "list"
  /\ \E ok \in BOOLEAN :
       IF ~ok
         THEN Exit(1, "failed to list input files") /\ UNCHANGED paths
       ELSE IF Len(listFiles(zTree)) = 0
         THEN Exit(1, "no files found") /\ paths' = listFiles(zTree)
       ELSE Continue("readDict") /\ paths' = listFiles(zTree)
  /\ UNCHANGED <<tool, flags, disk, idx, dictBytes, codecDict, encoder, stats,
                 inFile, outFile, opened, written, err, push, trainLocals, genLocals, gateway>>

\* main, os.ReadFile(*dictPath) when -use-dict is set
decompress_readDict ==
  /\ tool = "decompress" /\ pc = "readDict"
  /\ IF flags.useDict
       THEN IF dictFile.exists
              THEN Continue("newCodec") /\ dictBytes' = dictFile.data
              ELSE Exit(1, "failed to read dict") /\ UNCHANGED dictBytes
       ELSE Continue("newCodec") /\ UNCHANGED dictBytes
  /\ UNCHANGED <<tool, flags, disk, paths, idx, codecDict, encoder, stats,
                 inFile, outFile, opened, written, err, push, trainLocals, genLocals, gateway>>

\* The output path that always appends ".out" and removes nothing.
decompressOutPathKeepSuffix(rel) == Clean(rel \o OutSuffix)
\* outRel := strings.TrimSuffix(rel, ".zst"); without the suffix, rel + ".out";
\* outPath := filepath.Join(outDir, outRel), relative to outDir
decompressOutPath(rel) ==
  Clean(IF TrimSuffixZst(rel) = rel THEN rel \o OutSuffix ELSE TrimSuffixZst(rel))

\* What a failed decoding may leave in the output file: nothing, or the
\* bytes decoded before the error.
DecodeFailedOutputs(frame) ==
  {<<>>} \cup (IF Len(frame) >= 4 /\ frame[1] = FrameHeader(0, 0)[1] THEN {<<frame[4]>>} ELSE {})

\* decompressFiles, up to the loop: the decoder and its options
decompressFiles_new ==
  /\ tool = "decompress" /\ pc = "newCodec"
  /\ \E ok \in BOOLEAN :
       IF ok
         THEN /\ Continue("loop")
              /\ codecDict' = IF Len(dictBytes) > 0 THEN dictBytes ELSE <<>>
              /\ encoder' = "ready"
         ELSE Exit(1, "decompression failed") /\ UNCHANGED <<codecDict, encoder>>
  /\ UNCHANGED <<tool, flags, disk, paths, idx, dictBytes, stats, inFile, outFile,
                 opened, written, err, push, trainLocals, genLocals, gateway>>

\* decompressFiles, the loop head: the next path, its output path and directory;
\* past the last path the function returns its statistics.
decompressFiles_loop ==
  /\ tool = "decompress" /\ pc = "loop"
  /\ IF idx > Len(paths)
       THEN Continue("push") /\ UNCHANGED outTree
       ELSE \E ok \in BOOLEAN :
              IF ok /\ MkdirAllOk(outTree, Dir(decompressOutPath(paths[idx])))
                THEN /\ Continue("open")
                     /\ outTree' = MkdirAll(outTree, Dir(decompressOutPath(paths[idx])))
                ELSE Exit(1, "decompression failed") /\ UNCHANGED outTree
  /\ UNCHANGED <<tool, flags, inTree, zTree, dictFile, genFile, locals, gateway>>

\* inFile, err := os.Open(path)
decompressFiles_open ==
  /\ tool = "decompress" /\ pc = "open"
  /\ \E ok \in BOOLEAN :
       IF ok /\ OpenOk(zTree, paths[idx])
         THEN /\ Continue("create")
              /\ inFile' = "open"
              /\ opened' = Append(opened, paths[idx])
         ELSE Exit(1, "decompression failed") /\ UNCHANGED <<inFile, opened>>
  /\ UNCHANGED <<tool, flags, disk, paths, idx, dictBytes, codecDict, encoder, stats,
                 outFile, written, err, push, trainLocals, genLocals, gateway>>

\* outFile, err := os.Create(outPath)
decompressFiles_create ==
  /\ tool = "decompress" /\ pc = "create"
  /\ \E ok \in BOOLEAN :
       IF ok /\ CreateOk(outTree, decompressOutPath(paths[idx]))
         THEN /\ Continue("copy")
              /\ outTree' = WriteFile(outTree, decompressOutPath(paths[idx]), <<>>)
              /\ outFile' = "open"
              /\ UNCHANGED inFile
         ELSE /\ Exit(1, "decompression failed")
              /\ inFile' = CloseFile(inFile)
              /\ UNCHANGED <<outTree, outFile>>
  /\ UNCHANGED <<tool, flags, inTree, zTree, dictFile, genFile, paths, idx, dictBytes,
                 codecDict, encoder, stats, opened, written, err, push, trainLocals, genLocals, gateway>>

\* decoder.Reset(inFile); written, err := io.Copy(outFile, decoder), and the
\* return on an error
decompressFiles_copy ==
  /\ tool = "decompress" /\ pc = "copy"
  /\ encoder' = "reset"
  /\ \E ok \in BOOLEAN :
       IF ok /\ DecodeOk(zTree[paths[idx]].data, codecDict)
         THEN /\ Continue("closeOut")
              /\ outTree' = WriteFile(outTree, decompressOutPath(paths[idx]),
                                      Decode(zTree[paths[idx]].data, codecDict))
              /\ written' = Len(Decode(zTree[paths[idx]].data, codecDict))
              /\ err' = FALSE
              /\ UNCHANGED <<inFile, outFile>>
         ELSE /\ Exit(1, "decompression failed")
              /\ \E left \in DecodeFailedOutputs(zTree[paths[idx]].data) :
                   outTree' = WriteFile(outTree, decompressOutPath(paths[idx]), left)
              /\ written' = 0
              /\ err' = TRUE
              /\ inFile' = CloseFile(inFile)
              /\ outFile' = CloseFile(outFile)
  /\ UNCHANGED <<tool, flags, inTree, zTree, dictFile, genFile, paths, idx, dictBytes,
                 codecDict, stats, opened, push, trainLocals, genLocals, gateway>>

\* outFile.Close()
decompressFiles_closeOut ==
  /\ tool = "decompress" /\ pc = "closeOut"
  /\ outFile' = CloseFile(outFile)
  /\ \E ok \in BOOLEAN :
       IF ok THEN Continue("closeIn") /\ UNCHANGED inFile
       ELSE Exit(1, "decompression failed") /\ inFile' = CloseFile(inFile)
  /\ UNCHANGED <<tool, flags, disk, paths, idx, dictBytes, codecDict, encoder, stats,
                 opened, written, err, push, trainLocals, genLocals, gateway>>

\* inFile.Close()
decompressFiles_closeIn ==
  /\ tool = "decompress" /\ pc = "closeIn"
  /\ inFile' = CloseFile(inFile)
  /\ \E ok \in BOOLEAN :
       IF ok THEN Continue("stat") ELSE Exit(1, "decompression failed")
  /\ UNCHANGED <<tool, flags, disk, paths, idx, dictBytes, codecDict, encoder, stats,
                 outFile, opened, written, err, push, samples, sstats, chunks, total,
          offset, reads, trained, options, genFile, wbuf, gi, flushed, gateway>>

\* info, err := os.Stat(path), and the statistics of the file
decompressFiles_stat ==
  /\ tool = "decompress" /\ pc = "stat"
  /\ \E ok \in BOOLEAN :
       IF ok
         THEN /\ Continue("loop")
              /\ stats' = [FilesProcessed |-> stats.FilesProcessed + 1,
                           InputBytes |-> stats.InputBytes + zTree[paths[idx]].size,
                           OutputBytes |-> stats.OutputBytes + written]
              /\ idx' = idx + 1
         ELSE Exit(1, "decompression failed") /\ UNCHANGED <<stats, idx>>
  /\ UNCHANGED <<tool, flags, disk, paths, dictBytes, codecDict, encoder, inFile,
                 outFile, opened, written, err, push, samples, sstats, chunks, total,
          offset, reads, trained, options, genFile, wbuf, gi, flushed, gateway>>

\* main: a -run-id that is empty or blank is replaced by the time of the
\* run, time.Now().Format("20060102_150405"), a text of digits.
runID(f) == IF TrimSpace(f.runID) = "" THEN f.now ELSE f.runID

\* main, pushMetrics and the summary line
decompress_push ==
  /\ tool = "decompress" /\ pc = "push"
  /\ \E ok \in BOOLEAN :
       IF ok
         THEN /\ Exit(0, "")
              /\ push' = "ok"
              /\ gateway' = Append(gateway, [job |-> "decompress",
                                             group |-> [source |-> "compressed",
                                                        use_dict |-> flags.useDict,
                                                        run_id |-> runID(flags)],
                                             use_dict |-> flags.useDict,
                                             stats |-> stats])
         ELSE /\ Exit(1, "metrics push failed")
              /\ push' = "failed"
              /\ UNCHANGED gateway
  /\ UNCHANGED <<tool, flags, disk, paths, idx, dictBytes, codecDict, encoder, stats,
                 inFile, outFile, opened, written, err, trainLocals, genLocals>>

DecompressSteps ==
  \/ decompress_validate
  \/ decompress_mkdirOut
  \/ decompress_list
  \/ decompress_readDict
  \/ decompressFiles_new
  \/ decompressFiles_loop
  \/ decompressFiles_open
  \/ decompressFiles_create
  \/ decompressFiles_copy
  \/ decompressFiles_closeOut
  \/ decompressFiles_closeIn
  \/ decompressFiles_stat
  \/ decompress_push
DecompressNext == LaunchDecompress \/ DecompressSteps

\* -------------------------------------------------------------- train-dict
\* What the trainer's input directory holds: two files, of bytes that are
\* trimmed, whitespace that is not trimmed, or a letter.
TrainBytes == {Space, 11, 65}
RECURSIVE SeqsUpTo(_, _)
SeqsUpTo(S, n) ==
  IF n = 0 THEN {<<>>}
  ELSE SeqsUpTo(S, n - 1) \cup {Append(q, b) : q \in SeqsUpTo(S, n - 1), b \in S}
TrainPaths == <<<<"a">>, <<"a", ".out">>>>
TrainContents ==
  {c \in SeqsUpTo(TrainBytes, MaxTrainBytes) \X SeqsUpTo(TrainBytes, MaxTrainBytes) :
     Len(c[1]) + Len(c[2]) <= MaxTrainBytes}
TrainTrees ==
  {TreeOf(TrainPaths[1] :> RegularFile(c[1]) @@ TrainPaths[2] :> RegularFile(c[2])) :
     c \in TrainContents}

DictSizes == {0, 1, 2}
\* The disk before the trainer runs.
InitTrainFiles ==
  /\ inTree \in TrainTrees
  /\ zTree = EmptyTree
  /\ outTree = EmptyTree
  /\ dictFile = NoFile
  /\ genFile = NoFile

TrainFlags == [dictSize : DictSizes, maxSamples : 0..MaxFlag, maxSampleBytes : 0..MaxFlag,
               zstdLevel : {0}]

LaunchTrain ==
  /\ pc = "idle" /\ tool = "train-dict"
  /\ \E f \in TrainFlags : Start("train-dict", f)

RECURSIVE TrimStart(_, _, _)
\* the first loop of bytesTrimSpace: start after it
TrimStart(input, start, end) ==
  IF start < end /\ input[start + 1] \in TrimmedBytes
    THEN TrimStart(input, start + 1, end) ELSE start
RECURSIVE TrimEnd(_, _, _)
\* the second loop of bytesTrimSpace: end after it
TrimEnd(input, start, end) ==
  IF end > start /\ input[end] \in TrimmedBytes
    THEN TrimEnd(input, start, end - 1) ELSE end

bytesTrimSpace(input) ==
  LET start == TrimStart(input, 0, Len(input))
  IN SubSeq(input, start + 1, TrimEnd(input, start, Len(input)))

Min(a, b) == IF a < b THEN a ELSE b

\* io.ReadFull(reader, buf), buf of maxBytes bytes, off bytes consumed before
ReadFull(data, off, maxBytes) == SubSeq(data, off + 1, Min(off + maxBytes, Len(data)))

\* main, the checks of the numeric flags
train_validate ==
  /\ tool = "train-dict" /\ pc = "validate"
  /\ IF flags.dictSize <= 0 THEN Exit(1, "dict-size must be positive")
     ELSE IF flags.maxSamples <= 0 THEN Exit(1, "max-samples must be positive")
     ELSE IF flags.maxSampleBytes <= 0 THEN Exit(1, "max-sample-bytes must be positive")
     ELSE Continue("mkdirOut")
  /\ UNCHANGED <<tool, flags, disk, locals, gateway>>

\* main, os.MkdirAll(*outDir)
train_mkdirOut ==
  /\ tool = "train-dict" /\ pc = "mkdirOut"
  /\ \E ok \in BOOLEAN :
       IF ok THEN Continue("list") ELSE Exit(1, "failed to create output dir")
  /\ UNCHANGED <<tool, flags, disk, locals, gateway>>

\* collectSamples, listFiles(dir) and the check for no files
collectSamples_list ==
  /\ tool = "train-dict" /\ pc = "list"
  /\ \E ok \in BOOLEAN :
       IF ~ok
         THEN Exit(1, "failed to collect samples") /\ UNCHANGED paths
       ELSE IF Len(listFiles(inTree)) = 0
         THEN Exit(1, "failed to collect samples: no files found")
              /\ paths' = listFiles(inTree)
       ELSE Continue("loop") /\ paths' = listFiles(inTree)
  /\ UNCHANGED <<tool, flags, disk, idx, opened, push, codecLocals, trainLocals,
                 genLocals, gateway>>

\* collectSamples, the head of the loop over the paths and what follows the
\* loop: the check for fewer than two samples
\* (the loop without its check of the cap)
collectSamples_loopNoCap ==
  /\ tool = "train-dict" /\ pc = "loop"
  /\ IF idx > Len(paths)
       THEN IF Len(samples) < 2
              THEN Exit(1, "failed to collect samples: not enough samples to train")
              ELSE Continue("build")
       ELSE Continue("open")
  /\ UNCHANGED <<tool, flags, disk, locals, gateway>>
\* (the loop with one sample being enough)
collectSamples_loopOneSample ==
  /\ tool = "train-dict" /\ pc = "loop"
  /\ IF idx > Len(paths) \/ Len(samples) >= flags.maxSamples
       THEN IF Len(samples) < 1
              THEN Exit(1, "failed to collect samples: not enough samples to train")
              ELSE Continue("build")
       ELSE Continue("open")
  /\ UNCHANGED <<tool, flags, disk, locals, gateway>>
\* (the loop as the code has it)
collectSamples_loop ==
  /\ tool = "train-dict" /\ pc = "loop"
  /\ IF idx > Len(paths) \/ Len(samples) >= flags.maxSamples
       THEN IF Len(samples) < 2
              THEN Exit(1, "failed to collect samples: not enough samples to train")
              ELSE Continue("build")
       ELSE Continue("open")
  /\ UNCHANGED <<tool, flags, disk, locals, gateway>>

\* readSamplesFromFile, os.Open(path) and the reader
readSamplesFromFile_open ==
  /\ tool = "train-dict" /\ pc = "open"
  /\ \E ok \in BOOLEAN :
       IF ok /\ OpenOk(inTree, paths[idx])
         THEN /\ Continue("read")
              /\ opened' = Append(opened, paths[idx])
              /\ chunks' = <<>>
              /\ total' = 0
              /\ offset' = 0
         ELSE /\ Exit(1, "failed to collect samples")
              /\ UNCHANGED <<opened, chunks, total, offset>>
  /\ UNCHANGED <<tool, flags, disk, paths, idx, push, codecLocals, samples, sstats,
                 reads, trained, options, genLocals, gateway>>

\* The cap readSamplesFromFile is called with: maxSamples-len(samples).
SampleLimit == flags.maxSamples - Len(samples)

\* The turn of the loop that goes back to the start of the file after a
\* whitespace-only full chunk.
readSamplesFromFile_readAgain ==
  /\ tool = "train-dict" /\ pc = "read"
  /\ IF Len(chunks) >= SampleLimit
       THEN /\ Continue("collect")
            /\ UNCHANGED <<chunks, total, offset, reads>>
       ELSE \E ok \in BOOLEAN :
              LET chunk == ReadFull(inTree[paths[idx]].data, offset, flags.maxSampleBytes)
                  data == bytesTrimSpace(chunk)
                  again == Len(data) = 0 /\ Len(chunk) = flags.maxSampleBytes
              IN IF ~ok
                   THEN /\ Exit(1, "failed to collect samples")
                        /\ UNCHANGED <<chunks, total, offset, reads>>
                   ELSE /\ reads' = IF again THEN reads
                                    ELSE Append(reads, [file |-> paths[idx], chunk |-> chunk])
                        /\ offset' = IF again /\ offset > 0 THEN 0 ELSE offset + Len(chunk)
                        /\ chunks' = IF Len(data) > 0 THEN Append(chunks, data) ELSE chunks
                        /\ total' = total + Len(data)
                        /\ IF Len(chunk) < flags.maxSampleBytes
                             THEN Continue("collect") ELSE Continue("read")
  /\ UNCHANGED <<tool, flags, disk, paths, idx, opened, push, codecLocals, samples,
                 sstats, trained, options, genLocals, gateway>>

\* readSamplesFromFile, one turn of the loop: with the cap reached the
\* function returns; else a chunk is read, trimmed and, if not empty, kept;
\* a short chunk (the end of the file) ends the loop.
readSamplesFromFile_read ==
  /\ tool = "train-dict" /\ pc = "read"
  /\ IF Len(chunks) >= SampleLimit
       THEN /\ Continue("collect")
            /\ UNCHANGED <<chunks, total, offset, reads>>
       ELSE \E ok \in BOOLEAN :
              LET chunk == ReadFull(inTree[paths[idx]].data, offset, flags.maxSampleBytes)
                  data == bytesTrimSpace(chunk)
              IN IF ~ok
                   THEN /\ Exit(1, "failed to collect samples")
                        /\ UNCHANGED <<chunks, total, offset, reads>>
                   ELSE /\ reads' = Append(reads, [file |-> paths[idx], chunk |-> chunk])
                        /\ offset' = offset + Len(chunk)
                        /\ chunks' = IF Len(data) > 0 THEN Append(chunks, data) ELSE chunks
                        /\ total' = total + Len(data)
                        /\ IF Len(chunk) < flags.maxSampleBytes
                             THEN Continue("collect") ELSE Continue("read")
  /\ UNCHANGED <<tool, flags, disk, paths, idx, opened, push, codecLocals, samples,
                 sstats, trained, options, genLocals, gateway>>

\* collectSamples, after readSamplesFromFile has returned: a file without
\* chunks is passed over, else its chunks and the statistics are added.
collectSamples_collect ==
  /\ tool = "train-dict" /\ pc = "collect"
  /\ IF Len(chunks) = 0
       THEN UNCHANGED <<samples, sstats>>
       ELSE /\ samples' = samples \o chunks
            /\ sstats' = [FilesScanned |-> sstats.FilesScanned + 1,
                          Samples |-> sstats.Samples + Len(chunks),
                          SampleBytes |-> sstats.SampleBytes + total]
  /\ idx' = idx + 1
  /\ Continue("loop")
  /\ UNCHANGED <<tool, flags, disk, paths, opened, push, codecLocals, chunks, total,
                 offset, reads, trained, options, genLocals, gateway>>

\* parseZstdLevel: a level that is none of 1, 2, 3 is the best compression
parseZstdLevel(level) ==
  CASE level = 1 -> "SpeedFastest"
    [] level = 2 -> "SpeedDefault"
    [] level = 3 -> "SpeedBetterCompression"
    [] OTHER -> "SpeedBestCompression"

\* The build whose error is not looked at.
train_buildIgnoreError ==
  /\ tool = "train-dict" /\ pc = "build"
  /\ options' = [MaxDictSize |-> flags.dictSize, HashBytes |-> 6,
                 ZstdLevel |-> IF flags.zstdLevel > 0
                                 THEN parseZstdLevel(flags.zstdLevel) ELSE "unset"]
  /\ \E ok \in BOOLEAN :
       Continue("writeDict") /\ trained' = (IF ok THEN "ok" ELSE "failed")
  /\ UNCHANGED <<tool, flags, disk, paths, idx, opened, push, codecLocals, samples,
                 sstats, chunks, total, offset, reads, genLocals, gateway>>

\* main, the options and dict.BuildZstdDict(samples, options)
train_build ==
  /\ tool = "train-dict" /\ pc = "build"
  /\ options' = [MaxDictSize |-> flags.dictSize, HashBytes |-> 6,
                 ZstdLevel |-> IF flags.zstdLevel > 0
                                 THEN parseZstdLevel(flags.zstdLevel) ELSE "unset"]
  /\ \E ok \in BOOLEAN :
       IF ok THEN Continue("writeDict") /\ trained' = "ok"
       ELSE Exit(1, "failed to train dictionary") /\ trained' = "failed"
  /\ UNCHANGED <<tool, flags, disk, paths, idx, opened, push, codecLocals, samples,
                 sstats, chunks, total, offset, reads, genLocals, gateway>>

\* main, os.MkdirAll(filepath.Dir(outputPath)) and os.WriteFile(outputPath, trained);
\* a failed WriteFile leaves the path as it was (the open failed) or holding
\* a part of the bytes (the write or the close failed).
train_writeDict ==
  /\ tool = "train-dict" /\ pc = "writeDict"
  /\ \/ Continue("push") /\ dictFile' = File(Dictionary)
     \/ Exit(1, "failed to write dictionary") /\ UNCHANGED dictFile
     \/ /\ Exit(1, "failed to write dictionary")
        /\ \E k \in 0..Len(Dictionary) : dictFile' = File(SubSeq(Dictionary, 1, k))
  /\ UNCHANGED <<tool, flags, inTree, zTree, outTree, genFile, locals, gateway>>

\* main, pushMetrics and the summary line
train_push ==
  /\ tool = "train-dict" /\ pc = "push"
  /\ \E ok \in BOOLEAN :
       IF ok
         THEN /\ Exit(0, "")
              /\ push' = "ok"
              /\ gateway' = Append(gateway, [job |-> "train-dict",
                                             group |-> [source |-> "output",
                                                        dict_size |-> flags.dictSize],
                                             dict_size |-> flags.dictSize,
                                             stats |-> sstats])
         ELSE /\ Exit(1, "metrics push failed")
              /\ push' = "failed"
              /\ UNCHANGED gateway
  /\ UNCHANGED <<tool, flags, disk, paths, idx, opened, codecLocals, trainLocals,
                 genLocals>>

TrainSteps ==
  \/ train_validate
  \/ train_mkdirOut
  \/ collectSamples_list
  \/ collectSamples_loop
  \/ readSamplesFromFile_open
  \/ readSamplesFromFile_read
  \/ collectSamples_collect
  \/ train_build
  \/ train_writeDict
  \/ train_push
TrainNext == LaunchTrain \/ TrainSteps

\* ----------------------------------------------------------- generate-data
\* The disk before the generator runs.
InitGenFiles ==
  /\ inTree = EmptyTree
  /\ zTree = EmptyTree
  /\ outTree = EmptyTree
  /\ dictFile = NoFile
  /\ genFile = NoFile

GenTypes == {"movies", "books", "people"}
GenFlags == [type : GenTypes \cup {"", "songs"}, n : 0..MaxCount]

LaunchGen ==
  /\ pc = "idle" /\ tool = "generate-data"
  /\ \E f \in GenFlags : Start("generate-data", f)

\* What the actions of the generator leave alone, its own variables apart.
genOther == <<tool, inTree, zTree, outTree, dictFile, paths, idx, opened, dictBytes,
              codecDict, encoder, stats, inFile, outFile, written, trainLocals>>

\* main: promptString for an empty -type, promptInt for a count that is not
\* positive (both return only a non-empty text, a positive number), then the
\* check of the type.
gen_validate ==
  /\ tool = "generate-data" /\ pc = "validate"
  /\ \E t \in GenTypes \cup {"songs"}, v \in 1..MaxCount :
       LET dataType == IF flags.type = "" THEN t ELSE flags.type
           count == IF flags.n <= 0 THEN v ELSE flags.n
       IN /\ flags' = [type |-> dataType, n |-> count]
          /\ IF dataType \notin GenTypes
               THEN Exit(1, "unknown type")
               ELSE Continue("mkdirOut")
  /\ UNCHANGED <<genOther, genFile, err, push, genLocals, gateway>>

\* main, os.MkdirAll(*outDir)
gen_mkdirOut ==
  /\ tool = "generate-data" /\ pc = "mkdirOut"
  /\ \E ok \in BOOLEAN :
       IF ok THEN Continue("create") ELSE Exit(1, "failed to create output dir")
  /\ UNCHANGED <<genOther, flags, genFile, err, push, genLocals, gateway>>

\* The pieces writeJSONArray writes: "[\n", ",\n", a marshalled record, "\n]\n".
OpenBracket == [kind |-> "[", id |-> 0, type |-> ""]
Separator == [kind |-> ",", id |-> 0, type |-> ""]
CloseBracket == [kind |-> "]", id |-> 0, type |-> ""]
\* makeMovie, makeBook, makePerson: the record of the type with the identifier
makeItem(type, id) == [kind |-> "item", id |-> id, type |-> type]

\* writeJSONArray, os.Create(path); an error returns before any defer
writeJSONArray_create ==
  /\ tool = "generate-data" /\ pc = "create"
  /\ \E ok \in BOOLEAN :
       IF ok
         THEN /\ genFile' = File(<<>>)
              /\ err' = FALSE
              /\ pc' = "open"
         ELSE /\ err' = TRUE
              /\ pc' = "returned"
              /\ UNCHANGED genFile
  /\ UNCHANGED <<exitCode, stderr, history>>
  /\ UNCHANGED <<genOther, flags, push, genLocals, gateway>>

\* writer.Write of one piece: it goes to the buffer; when the buffer has no
\* room the buffer is first written to the file, and if that fails the part
\* not written stays in the buffer and the error is returned.
WriterWrite(piece, next) ==
  \/ /\ wbuf' = Append(wbuf, piece)
     /\ pc' = next
     /\ UNCHANGED <<genFile, err>>
  \/ /\ wbuf # <<>>
     /\ genFile' = File(genFile.data \o wbuf)
     /\ wbuf' = <<piece>>
     /\ pc' = next
     /\ UNCHANGED err
  \/ /\ wbuf # <<>>
     /\ \E k \in 0..(Len(wbuf) - 1) :
          /\ genFile' = File(genFile.data \o SubSeq(wbuf, 1, k))
          /\ wbuf' = SubSeq(wbuf, k + 1, Len(wbuf))
     /\ err' = TRUE
     /\ pc' = "deferFlush"

\* writer.WriteString("[\n")
writeJSONArray_open ==
  /\ tool = "generate-data" /\ pc = "open"
  /\ WriterWrite(OpenBracket, "loop")
  /\ UNCHANGED <<exitCode, stderr, history>>
  /\ UNCHANGED <<genOther, flags, push, gi, flushed, gateway>>

\* for i := 0; i < count; i++, and the test i > 0
\* (the loop counting from one)
writeJSONArray_loopFromOne ==
  /\ tool = "generate-data" /\ pc = "loop"
  /\ pc' = IF gi + 1 >= flags.n THEN "close" ELSE IF gi > 0 THEN "sep" ELSE "item"
  /\ UNCHANGED <<exitCode, stderr, history>>
  /\ UNCHANGED <<genOther, flags, genFile, err, push, genLocals, gateway>>
\* (the loop as the code has it)
writeJSONArray_loop ==
  /\ tool = "generate-data" /\ pc = "loop"
  /\ pc' = IF gi >= flags.n THEN "close" ELSE IF gi > 0 THEN "sep" ELSE "item"
  /\ UNCHANGED <<exitCode, stderr, history>>
  /\ UNCHANGED <<genOther, flags, genFile, err, push, genLocals, gateway>>

\* writer.WriteString(",\n")
writeJSONArray_sep ==
  /\ tool = "generate-data" /\ pc = "sep"
  /\ WriterWrite(Separator, "item")
  /\ UNCHANGED <<exitCode, stderr, history>>
  /\ UNCHANGED <<genOther, flags, push, gi, flushed, gateway>>

\* item := makeItem(i), json.Marshal (which has no error for these records),
\* writer.Write(data), i++; main passes i+1 as the identifier
writeJSONArray_item ==
  /\ tool = "generate-data" /\ pc = "item"
  /\ WriterWrite(makeItem(flags.type, gi + 1), "loop")
  /\ gi' = IF pc' = "loop" THEN gi + 1 ELSE gi
  /\ UNCHANGED <<exitCode, stderr, history>>
  /\ UNCHANGED <<genOther, flags, push, flushed, gateway>>

\* writer.WriteString("\n]\n"), return nil
writeJSONArray_close ==
  /\ tool = "generate-data" /\ pc = "close"
  /\ WriterWrite(CloseBracket, "deferFlush")
  /\ UNCHANGED <<exitCode, stderr, history>>
  /\ UNCHANGED <<genOther, flags, push, gi, flushed, gateway>>

\* The deferred calls: writer.Flush(), whose error is dropped, then
\* file.Close(), whose error is dropped. After a failed write Flush returns
\* that error and writes nothing.
writeJSONArray_deferFlush ==
  /\ tool = "generate-data" /\ pc = "deferFlush"
  /\ \/ /\ ~err
        /\ genFile' = File(genFile.data \o wbuf)
        /\ wbuf' = <<>>
        /\ flushed' = "ok"
     \/ /\ ~err
        /\ \E k \in 0..(Len(wbuf) - 1) :
             /\ genFile' = File(genFile.data \o SubSeq(wbuf, 1, k))
             /\ wbuf' = SubSeq(wbuf, k + 1, Len(wbuf))
        /\ flushed' = "failed"
     \/ /\ err
        /\ flushed' = "failed"
        /\ UNCHANGED <<genFile, wbuf>>
  /\ pc' = "returned"
  /\ UNCHANGED <<exitCode, stderr, history>>
  /\ UNCHANGED <<genOther, flags, err, push, gi, gateway>>

\* main, the check of the error writeJSONArray returned
gen_result ==
  /\ tool = "generate-data" /\ pc = "returned"
  /\ IF err THEN Exit(1, "failed to write output") ELSE Continue("push")
  /\ UNCHANGED <<genOther, flags, genFile, err, push, genLocals, gateway>>

\* main, pushMetrics and the summary line
gen_push ==
  /\ tool = "generate-data" /\ pc = "push"
  /\ \E ok \in BOOLEAN :
       IF ok
         THEN /\ Exit(0, "")
              /\ push' = "ok"
              /\ gateway' = Append(gateway, [job |-> "generate-data",
                                             group |-> [type |-> flags.type],
                                             type |-> flags.type,
                                             count |-> flags.n])
         ELSE /\ Exit(1, "metrics push failed")
              /\ push' = "failed"
              /\ UNCHANGED gateway
  /\ UNCHANGED <<genOther, flags, genFile, err, genLocals>>

GenSteps ==
  \/ gen_validate
  \/ gen_mkdirOut
  \/ writeJSONArray_create
  \/ writeJSONArray_open
  \/ writeJSONArray_loop
  \/ writeJSONArray_sep
  \/ writeJSONArray_item
  \/ writeJSONArray_close
  \/ writeJSONArray_deferFlush
  \/ gen_result
  \/ gen_push
GenNext == LaunchGen \/ GenSteps

\* A state before a process starts: the tool that is to run and its disk.
Init ==
  /\ InitProcess
  /\ \/ tool = "none" /\ InitFiles
     \/ tool = "train-dict" /\ InitTrainFiles
     \/ tool = "generate-data" /\ InitGenFiles
Next == CompressNext \/ DecompressNext \/ TrainNext \/ GenNext
Spec == Init /\ [][Next]_vars

\* Each tool run once on one small disk, with flags in and out of their
\* ranges.
ConfigInit ==
  /\ InitProcess
  /\ tool = "none"
  /\ inTree = TreeOf(<<"a">> :> RegularFile(LinkData))
  /\ zTree = TreeOf(<<"a", ".zst">> :> RegularFile(Encode(FileData, <<>>)))
  /\ outTree = EmptyTree
  /\ dictFile = File(Dictionary)
  /\ genFile = NoFile
DictPaths == {"", " ", "dict"}
Levels == {-1, 0, 22, 23}
ZstdLevels == {-1, 0, 4, 5}
LaunchConfig ==
  /\ pc = "idle" /\ tool = "none"
  /\ \/ \E f \in [useDict : BOOLEAN, dict : DictPaths, level : Levels] :
          Start("compress", f)
     \/ \E f \in [useDict : BOOLEAN, dict : DictPaths, runID : {""},
                   now : {"20260101_000000"}] : Start("decompress", f)
     \/ \E f \in [dictSize : {0, 1}, maxSamples : {0, 2}, maxSampleBytes : {0, 1},
                   zstdLevel : ZstdLevels] : Start("train-dict", f)
     \/ \E f \in GenFlags : Start("generate-data", f)
ConfigNext == LaunchConfig \/ CompressSteps \/ DecompressSteps \/ TrainSteps \/ GenSteps
ConfigSpec == ConfigInit /\ [][ConfigNext]_vars

\* Two runs, one after the other has ended, of any of the tools, on the
\* small disk; the pushes reach the gateway in the order of the runs' ends,
\* as the pushes of two concurrent runs do.
RunFlags(t) ==
  CASE t = "compress" -> [useDict : {FALSE}, dict : {""}, level : {0, 1}]
    [] t = "decompress" -> [useDict : {FALSE}, dict : {""}, runID : {"", " ", "r1", "r2"},
                            now : Times]
    [] t = "train-dict" -> [dictSize : {1, 2}, maxSamples : {2}, maxSampleBytes : {1},
                            zstdLevel : {0}]
    [] OTHER -> [type : {"movies", "books"}, n : {2}]
LaunchRun ==
  /\ (pc = "idle" /\ tool = "none") \/ (pc = "exit" /\ Len(history) = 1)
  /\ \E t \in {"compress", "decompress", "train-dict", "generate-data"} :
       \E f \in RunFlags(t) : Start(t, f)
RunsNext == LaunchRun \/ CompressSteps \/ DecompressSteps \/ TrainSteps \/ GenSteps
RunsSpec == ConfigInit /\ [][RunsNext]_vars

\* The compressor alone.
CompressInit == Init /\ tool = "none"
CompressSpec == CompressInit /\ [][CompressNext]_vars

\* The trainer alone, and the generator alone.
TrainInit == InitProcess /\ tool = "train-dict" /\ InitTrainFiles
TrainSpec == TrainInit /\ [][TrainNext]_vars
GenInit == InitProcess /\ tool = "generate-data" /\ InitGenFiles
GenSpec == GenInit /\ [][GenNext]_vars
\* The trainer as a running process: a turn of the loop of readSamplesFromFile
\* that can be taken is taken.
TrainLiveSpec == TrainInit /\ [][TrainNext]_vars /\ WF_vars(readSamplesFromFile_read)

\* ------------------------------------------------------------------ claims
\* The directory the running tool lists.
ListedInput == IF tool = "decompress" THEN zTree ELSE inTree

\* listFiles has returned a list in this run.
Listed ==
  /\ tool \in {"compress", "decompress"}
  /\ pc \notin {"idle", "validate", "mkdirOut", "list"}
  /\ pc = "exit" => stderr \notin {"-dict is required when -use-dict is set",
                                   "failed to create output dir",
                                   "failed to list input files"}

\* compressFiles / decompressFiles has returned without an error.
Returned == pc = "exit" /\ (exitCode = 0 \/ stderr = "metrics push failed")
HistReturned(h) == h.code = 0 \/ h.msg = "metrics push failed"

\* The decompressor has processed, without an error, what the compressor
\* wrote without an error, both with the same dictionary configuration.
RoundTripDone ==
  /\ tool = "decompress" /\ Returned
  /\ Len(history) = 2
  /\ history[1].tool = "compress" /\ HistReturned(history[1])
  /\ history[1].flags.useDict = flags.useDict

NonEmptyFiles(tree) == {p \in DOMAIN tree : tree[p].kind = "file" /\ tree[p].size > 0}

\* C1: after compressFiles and then decompressFiles with the same dictionary
\* configuration, every non-empty input file at relative path r has a file
\* at r under the decompressor's output root with exactly the original bytes.
C1_RoundTrip ==
  RoundTripDone =>
    \A r \in NonEmptyFiles(inTree) :
      /\ r \in DOMAIN outTree
      /\ outTree[r].kind = "file"
      /\ outTree[r].data = inTree[r].data

\* C2 as stated: the decompressed tree has exactly the original's relative
\* file paths, each byte-identical, zero-size files included.
C2_MirrorsAllFiles ==
  RoundTripDone =>
    /\ FilePaths(outTree) = FilePaths(inTree)
    /\ \A r \in FilePaths(inTree) :
         r \in DOMAIN outTree /\ outTree[r].data = inTree[r].data

\* The compressor's output directory holds nothing but what this compressor
\* run wrote.
FreshCompressed ==
  FilePaths(zTree) = {compressOutPath(p) : p \in Range(listFiles(inTree))}

\* C2 amended: when the compressed tree holds only the compressor's output,
\* the decompressed tree has exactly the relative paths of the original's
\* entries of non-zero size that are not directories, each with the bytes
\* read from the original; a zero-size file has no counterpart.
C2_MirrorsListedFiles ==
  (RoundTripDone /\ FreshCompressed) =>
    /\ FilePaths(outTree) = {p \in FilePaths(inTree) : inTree[p].size > 0}
    /\ \A r \in FilePaths(outTree) :
         outTree[r].kind = "file" /\ outTree[r].data = inTree[r].data

\* A round trip of a tree with a zero-size file and a file with data.
C2_Witness ==
  /\ RoundTripDone /\ FreshCompressed
  /\ \E r \in FilePaths(inTree) : inTree[r].size = 0
  /\ NonEmptyFiles(inTree) # {}

\* C3: listFiles returns exactly the regular files of non-zero size beneath
\* the root, each once, in ascending order; no directory, no zero-size file,
\* no symbolic link.
C3_ListsRegularNonEmpty ==
  Listed => paths = SeqOfSet(FALSE, NonEmptyFiles(ListedInput))

\* The output path of the i-th listed input of the running tool.
OutPathOf(i) ==
  IF tool = "compress" THEN compressOutPath(paths[i]) ELSE decompressOutPath(paths[i])
OutputTree == IF tool = "compress" THEN zTree ELSE outTree
ExpectedOutput(i) ==
  IF tool = "compress" THEN Encode(inTree[paths[i]].data, codecDict)
  ELSE Decode(zTree[paths[i]].data, codecDict)

\* C7: when compressFiles or decompressFiles ends on an error, the files
\* after the failing one were not opened, the failing one was opened at most
\* once, and the output written for every earlier file is on disk unchanged.
C7_ErrorEndsRun ==
  (tool \in {"compress", "decompress"} /\ pc = "exit"
     /\ stderr \in {"compression failed", "decompression failed"}) =>
    /\ \A i \in 1..Len(opened) : opened[i] = paths[i]
    /\ Len(opened) <= idx
    /\ \A i \in 1..(idx - 1) :
         /\ OutPathOf(i) \in DOMAIN OutputTree
         /\ OutputTree[OutPathOf(i)].data = ExpectedOutput(i)

\* The whole chunks and the last, shorter chunk of a file's bytes.
Chunk(data, max, k) == SubSeq(data, k * max + 1, Min((k + 1) * max, Len(data)))
NumChunks(data, max) == (Len(data) + max - 1) \div max

\* s is c without some whitespace bytes at its two ends.
TrimOf(s, c) ==
  \E i \in 0..Len(c), j \in 0..Len(c) :
    /\ i <= j
    /\ s = SubSeq(c, i + 1, j)
    /\ \A k \in 1..i : c[k] \in Whitespace
    /\ \A k \in (j + 1)..Len(c) : c[k] \in Whitespace

\* The samples of a file and of a tree, from the chunks, without a cap.
FileSamples(data, max) ==
  SelectSeq([k \in 1..NumChunks(data, max) |-> bytesTrimSpace(Chunk(data, max, k - 1))],
            LAMBDA c : c # <<>>)
RECURSIVE TreeSamples(_, _, _)
TreeSamples(tree, files, max) ==
  IF files = <<>> THEN <<>>
  ELSE FileSamples(tree[Head(files)].data, max) \o TreeSamples(tree, Tail(files), max)
Take(s, n) == SubSeq(s, 1, Min(n, Len(s)))
ExpectedSamples ==
  Take(TreeSamples(inTree, listFiles(inTree), flags.maxSampleBytes), flags.maxSamples)

\* The trainer runs, with its flags.
Training == tool = "train-dict" /\ pc # "idle"
\* The samples collected so far, those of the file being read included.
Held == samples \o (IF pc \in {"read", "collect"} THEN chunks ELSE <<>>)
NotEnough == "failed to collect samples: not enough samples to train"
\* collectSamples is past its loop.
CollectDone ==
  /\ Training
  /\ \/ pc \in {"build", "writeDict", "push"}
     \/ pc = "exit" /\ exitCode = 0
     \/ pc = "exit" /\ stderr \in {NotEnough, "failed to train dictionary",
                                  "failed to write dictionary", "metrics push failed"}

\* C4: every sample collected is non-empty and neither begins nor ends with
\* a whitespace byte, whichever whitespace byte it is.
C4_NoWhitespaceEnds ==
  Training =>
    \A i \in 1..Len(Held) :
      /\ Held[i] # <<>>
      /\ Held[i][1] \notin Whitespace
      /\ Held[i][Len(Held[i])] \notin Whitespace

\* C5: with fewer than two samples collected collectSamples returns its
\* error, the trainer exits with code 1 and the builder is not invoked; with
\* two or more it succeeds; the samples, and so the outcome, are determined
\* by the files, max-samples and max-sample-bytes alone.
C5_FewerThanTwoFails ==
  CollectDone =>
    /\ samples = ExpectedSamples
    /\ Len(samples) < 2 =>
         (pc = "exit" /\ exitCode = 1 /\ stderr = NotEnough /\ trained = "none"
            /\ push = "none" /\ ~dictFile.exists)
    /\ Len(samples) >= 2 => ~(pc = "exit" /\ stderr = NotEnough)

\* Collection has ended without a sample, the files read holding whitespace
\* alone, though max-samples allowed two.
C5_Witness ==
  /\ CollectDone /\ stderr = NotEnough
  /\ flags.maxSamples > 1
  /\ Len(samples) = 0
  /\ reads # <<>>

\* The k-th read of every file is its k-th chunk, every sample is a chunk
\* without whitespace at its ends, and the cap bounds the samples.
ChunksAndCap ==
  Training =>
    /\ \A f \in Range(opened) :
         LET rs == SelectSeq(reads, LAMBDA r : r.file = f)
         IN \A k \in 1..Len(rs) :
              rs[k].chunk = Chunk(inTree[f].data, flags.maxSampleBytes, k - 1)
    /\ \A i \in 1..Len(Held) :
         /\ Len(Held[i]) <= flags.maxSampleBytes
         /\ \E r \in Range(reads) : TrimOf(Held[i], r.chunk)
    /\ Len(Held) <= flags.maxSamples

\* With the cap reached a step reads no chunk and opens no file.
CapStops ==
  (Training /\ pc # "validate" /\ Len(Held) >= flags.maxSamples) =>
    (reads' = reads /\ opened' = opened)

\* C6: the k-th chunk read from a file is its bytes [k*max, (k+1)*max), each
\* sample is the trimmed form of one chunk and at most max bytes long, the
\* samples never exceed max-samples, and once the cap is reached no chunk is
\* read and no file is opened.
C6_ChunksAndCaps == []ChunksAndCap /\ [][CapStops]_vars

\* The cap is reached in the middle of the first file, with a second file
\* and bytes of the first left unread.
C6_Witness ==
  /\ Training /\ pc = "exit"
  /\ Len(samples) = flags.maxSamples
  /\ Len(paths) = 2 /\ Len(opened) = 1
  /\ Len(reads) >= 2
  /\ Len(reads) * flags.maxSampleBytes < Len(inTree[paths[1]].data)

\* A directory with nothing but directories and files of size zero.
OnlyEmptyFiles(tree) ==
  \A p \in DOMAIN tree : tree[p].kind = "dir" \/ (tree[p].kind = "file" /\ tree[p].size = 0)

\* The trainer's listFiles has returned a list.
TrainListed ==
  /\ Training
  /\ pc \notin {"validate", "mkdirOut", "list"}
  /\ pc = "exit" => stderr \notin {"dict-size must be positive",
                                   "max-samples must be positive",
                                   "max-sample-bytes must be positive",
                                   "failed to create output dir",
                                   "failed to collect samples"}

NoFilesFound ==
  /\ OnlyEmptyFiles(inTree) => listFiles(inTree) = <<>>
  /\ OnlyEmptyFiles(zTree) => listFiles(zTree) = <<>>
  /\ (Listed /\ OnlyEmptyFiles(ListedInput)) =>
       /\ pc = "exit" /\ exitCode = 1 /\ stderr = "no files found"
       /\ paths = <<>> /\ opened = <<>> /\ encoder = "none"
       /\ stats = runStats /\ push = "none"
  /\ (TrainListed /\ OnlyEmptyFiles(inTree)) =>
       /\ pc = "exit" /\ exitCode = 1
       /\ stderr = "failed to collect samples: no files found"
       /\ opened = <<>> /\ reads = <<>> /\ trained = "none" /\ push = "none"

\* A tool whose input has no file but of size zero writes nothing and pushes
\* nothing.
NoWorkOnEmpty ==
  (\/ tool' \in {"compress", "train-dict"} /\ OnlyEmptyFiles(inTree)
   \/ tool' = "decompress" /\ OnlyEmptyFiles(zTree)) =>
    UNCHANGED <<disk, gateway>>

\* C8: for a directory with only zero-size files, or none, listFiles returns
\* the empty list, the compressor and the decompressor report 'no files
\* found' and exit with code 1 with nothing processed and nothing pushed,
\* and the sample collector returns its 'no files found' error.
C8_NoFilesFound == []NoFilesFound /\ [][NoWorkOnEmpty]_vars

\* The decompressor has ended on a directory whose one file has size zero.
C8_Witness ==
  /\ tool = "decompress" /\ Listed
  /\ OnlyEmptyFiles(zTree)
  /\ FilePaths(zTree) # {}

\* What the writer was given: the bytes in the file, then those in the buffer.
Stream == genFile.data \o wbuf
Records(out) == SelectSeq(out, LAMBDA x : x.kind = "item")
Count(out, piece) == Len(SelectSeq(out, LAMBDA x : x = piece))

\* The array of n records: the brackets first and last, the i-th record at
\* the place 2i with identifier i, a separator after each but the last.
IsArrayOf(out, type, n) ==
  /\ Len(Records(out)) = n
  /\ \A i \in 1..Len(Records(out)) : Records(out)[i] = makeItem(type, i)
  /\ Count(out, Separator) = n - 1
  /\ Count(out, OpenBracket) = 1 /\ Count(out, CloseBracket) = 1
  /\ Len(out) = 2 * n + 1
  /\ out[1] = OpenBracket /\ out[Len(out)] = CloseBracket
  /\ \A i \in 1..n : out[2 * i].kind = "item"
  /\ \A i \in 1..(n - 1) : out[2 * i + 1] = Separator

\* writeJSONArray has returned nil.
ReturnedNil ==
  /\ tool = "generate-data"
  /\ pc \in {"returned", "push"} \/ (pc = "exit" /\ push # "none")
  /\ ~err

\* C9: for a count N >= 1 and each of the three types, writeJSONArray, when
\* it returns without an error, has written exactly N records, the i-th
\* with identifier i, with N-1 separators between one opening and one
\* closing bracket; after a flush without an error the file holds them.
C9_RecordsWritten ==
  ReturnedNil =>
    /\ flags.n >= 1 /\ flags.type \in GenTypes
    /\ IsArrayOf(Stream, flags.type, flags.n)
    /\ flushed = "ok" => (genFile.data = Stream /\ wbuf = <<>>)

\* An array of several records is in the file, part of it written before
\* the last flush.
C9_Witness ==
  /\ ReturnedNil /\ pc = "exit" /\ exitCode = 0
  /\ flags.n = MaxCount
  /\ flushed = "ok"
  /\ IsArrayOf(genFile.data, flags.type, flags.n)

\* The main work of the running tool has completed without an error.
WorkDone ==
  CASE tool = "compress" ->
         /\ idx > Len(paths) /\ stats.FilesProcessed = Len(paths)
         /\ \A i \in 1..Len(paths) : compressOutPath(paths[i]) \in FilePaths(zTree)
    [] tool = "decompress" ->
         /\ idx > Len(paths) /\ stats.FilesProcessed = Len(paths)
         /\ \A i \in 1..Len(paths) : decompressOutPath(paths[i]) \in FilePaths(outTree)
    [] tool = "train-dict" -> trained = "ok" /\ dictFile = File(Dictionary)
    [] tool = "generate-data" ->
         genFile.exists /\ IsArrayOf(genFile.data, flags.type, flags.n)
    [] OTHER -> FALSE

\* C10: in every tool the push is attempted only after the main work has
\* completed, never after it failed, and a failed push ends the process
\* with code 1.
C10_PushAfterWork ==
  push # "none" =>
    /\ WorkDone
    /\ push = "failed" => (pc = "exit" /\ exitCode = 1)
    /\ push = "ok" => (pc = "exit" /\ exitCode = 0)

\* A flag's text is empty or blank.
Blank(text) == text \in {"", " "}
\* The running tool's flags hold a configuration error.
ConfigError ==
  CASE tool = "compress" ->
         (flags.useDict /\ Blank(flags.dict)) \/ flags.level \notin 0..22
    [] tool = "decompress" -> flags.useDict /\ Blank(flags.dict)
    [] tool = "train-dict" ->
         \/ flags.dictSize <= 0 \/ flags.maxSamples <= 0 \/ flags.maxSampleBytes <= 0
         \/ flags.zstdLevel \notin 0..4
    [] tool = "generate-data" -> flags.type \notin GenTypes
    [] OTHER -> FALSE
ConfigMessages ==
  {"-dict is required when -use-dict is set", "unknown type", "dict-size must be positive",
   "max-samples must be positive", "max-sample-bytes must be positive"}
\* The process has ended on a message about its flags, before any work.
ReportedBeforeWork ==
  /\ pc = "exit" /\ exitCode = 1 /\ stderr \in ConfigMessages
  /\ paths = <<>> /\ opened = <<>> /\ reads = <<>>
  /\ encoder = "none" /\ trained = "none" /\ push = "none" /\ gateway = <<>>
  /\ outTree = EmptyTree /\ genFile = NoFile

\* C11: in every tool a configuration error (a required flag missing, a
\* numeric flag out of its range) ends the process with code 1 before any
\* work: nothing is listed, read, encoded, trained, written or pushed.
C11_ConfigErrorsReported ==
  (pc \notin {"idle", "validate"} /\ ConfigError) => ReportedBeforeWork

\* The success summary is the statement after the successful push, the last
\* one of main.
SummaryPrinted == pc = "exit" /\ push = "ok"

\* C12: a process exits with code 0 exactly when validation, every I/O
\* step, every codec or training step and the push succeeded, which leaves
\* the main work done and the push made; otherwise the code is 1 with a
\* message; the summary is printed only with code 0.
C12_ExitZeroIffSucceeded ==
  /\ pc = "exit" =>
       /\ exitCode \in {0, 1}
       /\ exitCode = 0 <=> (WorkDone /\ push = "ok")
       /\ exitCode = 1 <=> stderr # ""
  /\ SummaryPrinted => exitCode = 0

\* The decompressor is at a file of its loop, past the derivation of outPath.
AtDecompressFile ==
  /\ tool = "decompress" /\ idx \in 1..Len(paths)
  /\ pc \in {"open", "create", "copy", "closeOut", "closeIn", "stat"}
\* The relative output path as the claim derives it.
StrippedOrMarked(rel) ==
  IF rel # <<>> /\ rel[Len(rel)] = ZstSuffix[1]
    THEN SubSeq(rel, 1, Len(rel) - 1) ELSE rel \o OutSuffix
\* p names a file: it is not the root and its last component is not empty.
ValidFilePath(p) == p # <<>> /\ p[Len(p)] # Slash

\* C13: the decompressor's output path is the relative input path without
\* its final ".zst", or with ".out" appended when it has none, joined under
\* the output root, and it always names a file, also for an input named
\* exactly ".zst".
C13_OutputPathValid ==
  AtDecompressFile =>
    /\ decompressOutPath(paths[idx]) = StrippedOrMarked(paths[idx])
    /\ ValidFilePath(StrippedOrMarked(paths[idx]))
    /\ ValidFilePath(decompressOutPath(paths[idx]))

\* The identifier of the run that made the i-th push: the decompressor's
\* -run-id or its default; the other tools take no -run-id and a run is
\* known by its place among the runs only.
RunIdentifier(i) ==
  IF gateway[i].job = "decompress" THEN <<gateway[i].group.run_id>> ELSE <<"run", i>>
GroupingKey(i) == <<gateway[i].job, gateway[i].group>>

\* C14: two runs with distinct run identifiers push to distinct grouping
\* keys, so that neither push replaces the metrics of the other run, in
\* each of the four tools.
C14_DistinctRunsDistinctKeys ==
  \A i, j \in DOMAIN gateway :
    RunIdentifier(i) # RunIdentifier(j) => GroupingKey(i) # GroupingKey(j)

\* C15: when the collection of samples or the training call has failed the
\* trainer ends with code 1, no dictionary file is at the output path and
\* nothing was pushed; the output path is written only after a successful
\* training call and only with bytes that call returned.
C15_NoDictionaryOnFailure ==
  Training =>
    /\ (pc = "exit" /\ trained # "ok") =>
         (exitCode = 1 /\ dictFile = NoFile /\ push = "none" /\ gateway = <<>>)
    /\ trained # "ok" => pc \notin {"writeDict", "push"}
    /\ dictFile # NoFile =>
         /\ trained = "ok"
         /\ \E k \in 0..Len(Dictionary) : dictFile.data = SubSeq(Dictionary, 1, k)
         /\ exitCode = 0 => dictFile.data = Dictionary
\* The training call failed on two samples or more.
C15_Witness ==
  /\ Training /\ pc = "exit" /\ trained = "failed" /\ Len(samples) >= 2
  /\ exitCode = 1 /\ dictFile = NoFile

RECURSIVE SumLen(_)
\* The sum of the lengths of the samples of a list.
SumLen(list) == IF list = <<>> THEN 0 ELSE Len(list[1]) + SumLen(Tail(list))
\* collectSamples has returned its samples without an error.
CollectSucceeded == CollectDone /\ ~(pc = "exit" /\ stderr = NotEnough)

\* C16: the statistics collectSamples returns with its samples agree with
\* them: Samples is their number, SampleBytes the sum of their lengths,
\* FilesScanned the number of files that were read, a file that gave no
\* sample included.
C16_StatsAgree ==
  CollectSucceeded =>
    /\ sstats.Samples = Len(samples)
    /\ sstats.SampleBytes = SumLen(samples)
    /\ sstats.FilesScanned = Len(opened)

\* The compressor is in compressFiles, at a file of its loop.
AtCompressFile == tool = "compress" /\ idx \in 1..Len(paths)
\* What each statement of the loop body finds: the encoder, the two files.
CompressOrder ==
  AtCompressFile =>
    /\ pc = "copy" => /\ encoder \in {"ready", "closed"}
                      /\ inFile = "open" /\ outFile = "open"
                      /\ zTree[compressOutPath(paths[idx])] = RegularFile(<<>>)
    /\ pc = "encClose" => encoder = "written" /\ inFile = "open" /\ outFile = "open"
    /\ pc = "closeOut" => encoder = "closed" /\ inFile = "open" /\ outFile = "open"
    /\ pc = "closeIn" => encoder = "closed" /\ inFile = "open" /\ outFile = "closed"
    /\ pc = "stat" => encoder = "closed" /\ inFile = "closed" /\ outFile = "closed"
    /\ pc \in {"loop", "open", "create"} =>
         encoder = (IF idx = 1 THEN "ready" ELSE "closed")
\* One encoder is made, before the loop; it is written to only by the copy
\* that follows its Reset; OutputBytes grows only by the size of an output
\* that was flushed and closed.
CompressSteady ==
  (tool = "compress" /\ pc # "exit") =>
    /\ encoder' # encoder =>
         \/ pc = "newCodec" /\ encoder = "none" /\ encoder' = "ready"
         \/ pc = "copy" /\ encoder' = "written"
         \/ pc = "encClose" /\ encoder' = "closed"
    /\ stats'.OutputBytes # stats.OutputBytes =>
         /\ pc = "stat" /\ encoder = "closed" /\ outFile = "closed"
         /\ zTree[compressOutPath(paths[idx])].data =
              Encode(inTree[paths[idx]].data, codecDict)
         /\ stats'.OutputBytes =
              stats.OutputBytes + Len(Encode(inTree[paths[idx]].data, codecDict))

\* C17: compressFiles makes one encoder for the run and uses it for every
\* file in the order Reset and copy, Close of the encoder, close of the
\* output, close of the input, stat; OutputBytes is increased only by the
\* size of a flushed and closed output file.
C17_EncoderReuse == []CompressOrder /\ [][CompressSteady]_vars
\* The second file of a run has been flushed and closed.
C17_Witness ==
  /\ AtCompressFile /\ idx = 2 /\ pc = "stat" /\ encoder = "closed"
  /\ stats.FilesProcessed = 1 /\ stats.OutputBytes > 0

\* readSamplesFromFile is in its loop.
InReadLoop == tool = "train-dict" /\ pc = "read"
\* A turn of the loop stays in the loop only after exactly maxBytes further
\* bytes of the file, and else returns.
ReadConsumes ==
  InReadLoop =>
    /\ flags.maxSampleBytes >= 1 /\ SampleLimit >= 1
    /\ pc' = "read" => /\ offset' = offset + flags.maxSampleBytes
                       /\ offset' <= Len(inTree[paths[idx]].data)
    /\ pc' \in {"read", "collect", "exit"}

\* C18: readSamplesFromFile returns for every file: each turn of its loop
\* consumes exactly maxBytes further bytes or leaves the loop, also on full
\* chunks of whitespace only and on a length that is a multiple of maxBytes.
C18_ReadTerminates == [][ReadConsumes]_vars /\ (InReadLoop ~> ~InReadLoop)
\* The loop has ended at the end of a file of two full chunks, one of them
\* of whitespace only.
C18_Witness ==
  /\ tool = "train-dict" /\ pc = "collect" /\ Len(chunks) < SampleLimit
  /\ offset = Len(inTree[paths[idx]].data) /\ offset = 2 * flags.maxSampleBytes
  /\ \E i \in DOMAIN reads :
       /\ reads[i].file = paths[idx] /\ Len(reads[i].chunk) = flags.maxSampleBytes
       /\ bytesTrimSpace(reads[i].chunk) = <<>>

\* C19: within one run of the decompressor, and of the compressor, two
\* different listed inputs have different output paths, so that no output
\* of the run is overwritten by the output of another input.
C19_DistinctOutputPaths ==
  (tool \in {"compress", "decompress"} /\ Listed) =>
    \A i, j \in 1..Len(paths) : paths[i] # paths[j] => OutPathOf(i) # OutPathOf(j)

\* compressFiles or decompressFiles is running or has returned.
InCodecRun == tool \in {"compress", "decompress"} /\ pc \notin {"idle", "validate"}
\* A handle that was never opened, or was opened and closed once.
NotHeld(handle) == handle \in {"nil", "closed"}
\* At the head of the loop, before each open and at every return no file is
\* held; a file is closed once, and only while it is open.
HandlesClosed ==
  InCodecRun =>
    /\ inFile \in {"nil", "open", "closed"} /\ outFile \in {"nil", "open", "closed"}
    /\ pc \in {"mkdirOut", "list", "readDict", "newCodec", "loop", "open", "push", "exit"} =>
         (NotHeld(inFile) /\ NotHeld(outFile))
    /\ pc = "create" => (inFile = "open" /\ NotHeld(outFile))
    /\ outFile = "open" => inFile = "open"
CloseOnce ==
  (tool \in {"compress", "decompress"} /\ tool' = tool /\ pc # "exit") =>
    /\ inFile' # inFile => ((inFile = "open") # (inFile' = "open"))
    /\ outFile' # outFile => ((outFile = "open") # (outFile' = "open"))
    /\ inFile' = "open" /\ inFile # "open" => pc = "open"
    /\ outFile' = "open" /\ outFile # "open" => pc = "create"

\* C20: compressFiles and decompressFiles leak no file handle: at the head
\* of every turn of the loop and at every return each file they opened has
\* been closed, exactly once, and at most one input and one output are open
\* at a time.
C20_NoHandleLeak == []HandlesClosed /\ [][CloseOnce]_vars
\* A return on an error in the second turn of the loop, after the copy, the
\* two files of the turn closed on the way out.
C20_Witness ==
  /\ InCodecRun /\ pc = "exit" /\ exitCode = 1 /\ idx = 2
  /\ inFile = "closed" /\ outFile = "closed" /\ encoder = "closed"
  /\ Len(opened) = 2

\* C21: writeJSONArray returns an error whenever a part of the array did not
\* reach the file, a failed last flush included, so that the generator ends
\* with code 0 and a push of the requested count only with the whole array
\* of N records in the file.
C21_ErrorWhenNotWritten ==
  /\ ReturnedNil => (flushed = "ok" /\ IsArrayOf(genFile.data, flags.type, flags.n))
  /\ (tool = "generate-data" /\ pc = "exit" /\ exitCode = 0) =>
       /\ IsArrayOf(genFile.data, flags.type, flags.n)
       /\ gateway # <<>> /\ gateway[Len(gateway)].count = flags.n

\* A compressor or decompressor run has ended with code 0.
CodecRunSucceeded == tool \in {"compress", "decompress"} /\ pc = "exit" /\ exitCode = 0

\* C22: a compressor or decompressor run with -use-dict that ends with code
\* 0 had its codec configured with the bytes of the dictionary file, also
\* for a file of length zero, so that the label use_dict="true" it pushed
\* describes a run with a dictionary; without -use-dict no dictionary is
\* read or used, whatever -dict is.
C22_UseDictMeansDictionary ==
  CodecRunSucceeded =>
    /\ gateway # <<>>
    /\ gateway[Len(gateway)].group.use_dict = flags.useDict
    /\ flags.useDict => (dictFile.exists /\ dictBytes = dictFile.data
                         /\ codecDict = dictFile.data /\ codecDict # <<>>)
    /\ ~flags.useDict => (dictBytes = <<>> /\ codecDict = <<>>)

====
